---- MODULE Spec2Model ----
(***************************************************************************)
(* Model of yahooquery_to_mongodb.py: the screener pagination loop         *)
(* (fetch_us_equity_symbols), the chunk generator (chunked), the per-batch *)
(* fetch and bulk upsert (upsert_company_data) and their sequencing (main).*)
(*                                                                         *)
(* The three remote collaborators are modelled at the call sites:          *)
(*   - the screener answers a request at an offset with one page of quotes *)
(*     (pages), or the request raises;                                     *)
(*   - Ticker.get_modules answers with a mapping symbol -> record, or      *)
(*     raises;                                                             *)
(*   - the collection is a list of documents; bulk_write executes the      *)
(*     UpdateOne operations the server does not reject, and raises when    *)
(*     one was rejected or when the call cannot be made.                   *)
(***************************************************************************)
EXTENDS Integers, Sequences, FiniteSets, TLC

VARIABLES
    pc,          \* position of the process
    failure,     \* which call raised ("" while none did)
    pageSize,    \* args.screener_page_size
    maxSymbols,  \* args.max_symbols (None when unset)
    batchSize,   \* args.batch_size
    pages,       \* the screener's answers, one per page requested
    offset,      \* fetch_us_equity_symbols: offset
    symbols,     \* fetch_us_equity_symbols: symbols, then main: symbols
    requests,    \* offsets of the page requests issued so far
    stop,        \* which break ended the pagination loop ("" while looping)
    store,       \* the documents of the collection, in insertion order
    clock,       \* the value the next dt.datetime.utcnow() returns
    start,       \* chunked: start of the next chunk
    chunks,      \* the chunks yielded so far by chunked
    batchIndex,  \* upsert_company_data: batch_index
    totalBatches,\* upsert_company_data: total_batches
    batch,       \* upsert_company_data: batch_symbols
    data,        \* upsert_company_data: data (the fetched mapping)
    operations,  \* upsert_company_data: operations (last list built)
    rejected,    \* indexes of the operations the last bulk_write rejected
    committed,   \* <<batch_index, symbol>> of every operation executed
    fetchLog,    \* batch_index of every get_modules call issued
    writeLog,    \* batch_index of every bulk_write call issued
    fetched,     \* <<batch_index, symbol, record>> of every entry get_modules returned
    failedBatch, \* batch_index of the batch whose call raised (0 while none)
    runOps,      \* concurrent runs: the operations of each run's bulk_write
    runPending,  \* concurrent runs: indexes of the operations not yet executed
    runMiss,     \* concurrent runs: the operation that matched no document
                 \* and is about to insert (0 when none)
    runLog       \* concurrent runs: <<run, index, outcome>> of the server's steps

vars == <<pc, failure, pageSize, maxSymbols, batchSize, pages, offset, symbols,
          requests, stop, store, clock, start, chunks, batchIndex,
          totalBatches, batch, data, operations, rejected, committed, fetchLog,
          writeLog, fetched, failedBatch, runOps, runPending, runMiss, runLog>>

runVars == <<runOps, runPending, runMiss, runLog>>
confVars == <<pageSize, maxSymbols, batchSize, pages>>
upsertVars == <<start, chunks, batchIndex, totalBatches, batch, data,
                operations, rejected, committed, fetchLog, writeLog, fetched,
                failedBatch>>

----------------------------------------------------------------------------
(* Bounds of the model *)

\* pages the screener holds before it answers with an empty page
MaxPages == 2
\* largest screener page size tried
MaxPageSize == 2
\* quotes the screener holds in all
MaxListed == 3
\* largest max_symbols tried
MaxCap == 2
\* largest batch size tried
MaxBatchSize == 2
\* documents the collection may hold before the run
MaxInitDocs == 2
\* items handed to chunked when it is exercised on its own
MaxItems == 4
\* chunk sizes handed to chunked when it is exercised on its own
MaxSize == 3

\* max_symbols = None
None == -1
\* a quote without a "symbol" key
NoSymbol == "<nosymbol>"
\* symbols the screener may list
Tickers == {"A", "B"}
\* a "symbol" key whose value is the empty string
EmptySymbol == ""
\* entries of a screener page
Quotes == Tickers \cup {NoSymbol}
\* entries of a screener page when the pagination is exercised on its own
EnumQuotes == Quotes \cup {EmptySymbol}
\* records get_modules may return for a symbol
Records == {"r1", "r2"}
\* the default of data.get(symbol, {})
EmptyRecord == "{}"
\* data of the documents left by an earlier run
OldRecord == "r0"

----------------------------------------------------------------------------
(* Sequences *)

Range(s) == {s[i] : i \in 1..Len(s)}

SeqsUpTo(S, n) == UNION {[1..k -> S] : k \in 0..n}

NonEmptySeqsUpTo(S, n) == UNION {[1..k -> S] : k \in 1..n}

Min(a, b) == IF a < b THEN a ELSE b

\* Python's items[lo:hi] for 0 <= lo <= hi
Slice(items, lo, hi) == SubSeq(items, lo + 1, Min(hi, Len(items)))

RECURSIVE Concat(_)
Concat(ss) == IF ss = <<>> THEN <<>> ELSE Head(ss) \o Concat(Tail(ss))

----------------------------------------------------------------------------
(* fetch_us_equity_symbols *)

\* the quotes of the answer to the request at offset off: results[0]["quotes"],
\* empty when the screener has no further page
PageAt(pgs, off, size) ==
    LET k == (off \div size) + 1
    IN  IF k <= Len(pgs) THEN pgs[k] ELSE <<>>

\* a cap test that lets the list grow past the cap
CapReachedStrict(syms, cap) == cap # None /\ Len(syms) > cap
\* line 40: max_symbols is not None and len(symbols) >= max_symbols
CapReached(syms, cap) == cap # None /\ Len(syms) >= cap

\* line 73: [quote["symbol"] for quote in quotes if "symbol" in quote]
NewSymbols(quotes) == SelectSeq(quotes, LAMBDA q : q # NoSymbol)

\* line 78: len(quotes) < page_size
ShortPage(quotes, size) == Len(quotes) < size

\* a loop that forgets to advance: the same page is requested again
NextOffsetStuck(off, size) == off
\* line 81: offset += page_size
NextOffset(off, size) == off + size

\* a return without the slice of line 84
ReturnedUntruncated(syms, cap) == syms
\* lines 83-85: the value returned
Returned(syms, cap) == IF cap # None THEN Slice(syms, 0, cap) ELSE syms

\* lines 36-85 as one function of the screener's answers
RECURSIVE EnumerateFrom(_, _, _, _, _)
EnumerateFrom(pgs, size, cap, syms, off) ==
    IF CapReached(syms, cap) THEN Returned(syms, cap)
    ELSE LET quotes == PageAt(pgs, off, size)
         IN  IF quotes = <<>> THEN Returned(syms, cap)
             ELSE IF ShortPage(quotes, size)
                  THEN Returned(syms \o NewSymbols(quotes), cap)
                  ELSE EnumerateFrom(pgs, size, cap, syms \o NewSymbols(quotes),
                                     NextOffset(off, size))

Enumerate(pgs, size, cap) == EnumerateFrom(pgs, size, cap, <<>>, 0)

\* the model stops issuing requests here; a loop that advances its offset
\* never gets this far (RequestsBounded)
MaxRequests == MaxPages + 2

\* lines 40-42 then 83-85: the cap is reached, the loop breaks
BreakOnCap ==
    /\ pc = "enum"
    /\ CapReached(symbols, maxSymbols)
    /\ symbols' = Returned(symbols, maxSymbols)
    /\ stop' = "cap"
    /\ pc' = "enumerated"
    /\ UNCHANGED runVars
    /\ UNCHANGED <<failure, confVars, offset, requests, store, clock, upsertVars>>

\* lines 58-67 and 69-71: the request is answered with no result or no quotes
PageEmpty ==
    /\ pc = "enum"
    /\ ~CapReached(symbols, maxSymbols)
    /\ Len(requests) < MaxRequests
    /\ PageAt(pages, offset, pageSize) = <<>>
    /\ requests' = Append(requests, offset)
    /\ symbols' = Returned(symbols, maxSymbols)
    /\ stop' = "empty"
    /\ pc' = "enumerated"
    /\ UNCHANGED runVars
    /\ UNCHANGED <<failure, confVars, offset, store, clock, upsertVars>>

\* lines 58-79: the request is answered with fewer than page_size quotes
PageShort ==
    /\ pc = "enum"
    /\ ~CapReached(symbols, maxSymbols)
    /\ Len(requests) < MaxRequests
    /\ LET quotes == PageAt(pages, offset, pageSize)
       IN  /\ quotes # <<>>
           /\ ShortPage(quotes, pageSize)
           /\ symbols' = Returned(symbols \o NewSymbols(quotes), maxSymbols)
    /\ requests' = Append(requests, offset)
    /\ stop' = "short"
    /\ pc' = "enumerated"
    /\ UNCHANGED runVars
    /\ UNCHANGED <<failure, confVars, offset, store, clock, upsertVars>>

\* lines 58-81: the request is answered with a full page, the loop goes on
PageFull ==
    /\ pc = "enum"
    /\ ~CapReached(symbols, maxSymbols)
    /\ Len(requests) < MaxRequests
    /\ LET quotes == PageAt(pages, offset, pageSize)
       IN  /\ quotes # <<>>
           /\ ~ShortPage(quotes, pageSize)
           /\ symbols' = symbols \o NewSymbols(quotes)
    /\ requests' = Append(requests, offset)
    /\ offset' = NextOffset(offset, pageSize)
    /\ UNCHANGED runVars
    /\ UNCHANGED <<pc, failure, confVars, stop, store, clock, upsertVars>>

\* a loop that catches the exception and returns what it has
AfterPageFailureReturn == "enumerated"
\* where the process is after misc._make_request raised at line 58: nothing
\* catches the exception
AfterPageFailure == "failed"

\* line 58: misc._make_request raises; nothing is returned
PageRequestFails ==
    /\ pc = "enum"
    /\ ~CapReached(symbols, maxSymbols)
    /\ Len(requests) < MaxRequests
    /\ requests' = Append(requests, offset)
    /\ failure' = "enumeration"
    /\ pc' = AfterPageFailure
    /\ UNCHANGED runVars
    /\ UNCHANGED <<confVars, offset, symbols, stop, store, clock, upsertVars>>

----------------------------------------------------------------------------
(* chunked *)

\* line 30: range(0, len(items), size) has a further element
HasNextChunk(items, from) == from < Len(items)

\* a slice that ends one item early
ChunkAtOffByOne(items, from, size) == Slice(items, from, from + size - 1)
\* line 31: items[start : start + size]
ChunkAt(items, from, size) == Slice(items, from, from + size)

\* a step that passes over one item
NextStartSkips(from, size) == from + size + 1
\* line 30: the step of the range
NextStart(from, size) == from + size

\* lines 30-31: the generator yields its next chunk
ChunkedYield ==
    /\ pc = "chunking"
    /\ HasNextChunk(symbols, start)
    /\ chunks' = Append(chunks, ChunkAt(symbols, start, batchSize))
    /\ start' = NextStart(start, batchSize)
    /\ UNCHANGED runVars
    /\ UNCHANGED <<pc, failure, confVars, offset, symbols, requests, stop, store,
                   clock, batchIndex, totalBatches, batch, data, operations,
                   rejected, committed, fetchLog, writeLog, fetched,
                   failedBatch>>

\* line 30: the range is exhausted, the generator returns
ChunkedReturn ==
    /\ pc = "chunking"
    /\ ~HasNextChunk(symbols, start)
    /\ pc' = "chunked"
    /\ UNCHANGED runVars
    /\ UNCHANGED <<failure, confVars, offset, symbols, requests, stop, store,
                   clock, upsertVars>>

----------------------------------------------------------------------------
(* The collection *)

Doc(s, t, d) == [symbol |-> s, last_updated |-> t, data |-> d]

\* the documents of st whose symbol is s
DocsOf(st, s) == SelectSeq(st, LAMBDA doc : doc.symbol = s)

\* line 182: a unique index on "symbol" cannot be built over these documents
HasDuplicateKeys(st) ==
    \E i, j \in 1..Len(st) : i # j /\ st[i].symbol = st[j].symbol

\* an UpdateOne without upsert
UpsertFlagOff == FALSE
\* line 116: upsert=True
UpsertFlag == TRUE

\* lines 107-117: UpdateOne({"symbol": symbol}, {"$set": {...}}, upsert=True)
UpdateOne(s, t, d) == [filter |-> s, set |-> Doc(s, t, d), upsert |-> UpsertFlag]

\* line 105: data.get(symbol, {})
SymbolData(mapping, s) == IF s \in DOMAIN mapping THEN mapping[s] ELSE EmptyRecord

\* a loop that skips the symbols get_modules returned nothing for
BuildOperationsSkipMissing(syms, mapping, t) ==
    LET present == SelectSeq(syms, LAMBDA s : s \in DOMAIN mapping)
    IN  [i \in 1..Len(present) |-> UpdateOne(present[i], t, mapping[present[i]])]
\* lines 101-118: one operation per symbol of the batch
BuildOperations(syms, mapping, t) ==
    [i \in 1..Len(syms) |-> UpdateOne(syms[i], t, SymbolData(mapping, syms[i]))]

\* an insert in place of the update by key
ApplyInsertAlways(st, op) == Append(st, op.set)
\* an update that ignores the filter when the collection has a document
ApplyUpdateAnyDoc(st, op) ==
    IF st # <<>> THEN [st EXCEPT ![1] = op.set] ELSE Append(st, op.set)
\* the server executes one UpdateOne: $set on the first document matching the
\* filter, or with upsert the insertion of the filter's and $set's fields
ApplyUpdateOne(st, op) ==
    LET hits == {i \in 1..Len(st) : st[i].symbol = op.filter}
    IN  IF hits # {}
        THEN LET i == CHOOSE h \in hits : \A g \in hits : h <= g
             IN  [st EXCEPT ![i] = [@ EXCEPT !.symbol = op.set.symbol,
                                             !.last_updated = op.set.last_updated,
                                             !.data = op.set.data]]
        ELSE IF op.upsert THEN Append(st, op.set) ELSE st

\* ordered=True: the server stops at the first operation it rejects
ExecutedOrdered(n, rej) == {i \in 1..n : \A r \in rej : i < r}
\* line 121, ordered=False: the indexes of the operations the server executes
\* when it rejects those of rej
Executed(n, rej) == (1..n) \ rej

\* line 121: the collection after the server executed the operations of ex.
\* The operations of one batch on one key are equal, so their order of
\* execution does not show.
RECURSIVE ApplyFrom(_, _, _, _)
ApplyFrom(st, ops, ex, i) ==
    IF i > Len(ops) THEN st
    ELSE ApplyFrom(IF i \in ex THEN ApplyUpdateOne(st, ops[i]) ELSE st, ops, ex, i + 1)

BulkWrite(st, ops, ex) == ApplyFrom(st, ops, ex, 1)

\* the <<batch_index, symbol>> pairs of the operations of ex
Writes(k, ops, ex) == {<<k, ops[i].filter>> : i \in ex}

\* the mappings get_modules may return for the symbols syms
Mappings(syms) == UNION {[D -> Records] : D \in SUBSET Range(syms)}

----------------------------------------------------------------------------
(* main and upsert_company_data *)

\* line 182: create_index("symbol", unique=True) succeeds
CreateIndex ==
    /\ pc = "start"
    /\ ~HasDuplicateKeys(store)
    /\ pc' = "enum"
    /\ UNCHANGED runVars
    /\ UNCHANGED <<failure, confVars, offset, symbols, requests, stop, store,
                   clock, upsertVars>>

\* line 182: create_index raises over documents that share a symbol
CreateIndexFails ==
    /\ pc = "start"
    /\ HasDuplicateKeys(store)
    /\ failure' = "index"
    /\ pc' = "failed"
    /\ UNCHANGED runVars
    /\ UNCHANGED <<confVars, offset, symbols, requests, stop, store, clock,
                   upsertVars>>

\* a test that never takes the early return
NoSymbolsFoundNever(syms) == FALSE
\* line 185: not symbols
NoSymbolsFound(syms) == syms = <<>>

\* lines 185-187: no symbols, main returns
MainNoSymbols ==
    /\ pc = "enumerated"
    /\ NoSymbolsFound(symbols)
    /\ pc' = "done"
    /\ UNCHANGED runVars
    /\ UNCHANGED <<failure, confVars, offset, symbols, requests, stop, store,
                   clock, upsertVars>>

\* line 95: math.ceil(len(symbols) / batch_size) if symbols else 0
TotalBatches(syms, size) ==
    IF syms = <<>> THEN 0 ELSE (Len(syms) + size - 1) \div size

\* lines 189 and 95-96: upsert_company_data is entered
EnterUpsert ==
    /\ pc = "enumerated"
    /\ ~NoSymbolsFound(symbols)
    /\ totalBatches' = TotalBatches(symbols, batchSize)
    /\ pc' = "loop"
    /\ UNCHANGED runVars
    /\ UNCHANGED <<failure, confVars, offset, symbols, requests, stop, store,
                   clock, start, chunks, batchIndex, batch, data, operations,
                   rejected, committed, fetchLog, writeLog, fetched,
                   failedBatch>>

\* a loop that catches the exception and goes on to the next batch
AfterFetchFailureContinue == "loop"
\* where the process is after get_modules raised at line 99: nothing catches
\* the exception
AfterFetchFailure == "failed"

\* lines 96-99: the next chunk is taken and its data fetched
FetchBatch ==
    /\ pc = "loop"
    /\ HasNextChunk(symbols, start)
    /\ LET next == ChunkAt(symbols, start, batchSize)
       IN  /\ batch' = next
           /\ chunks' = Append(chunks, next)
           /\ data' \in Mappings(next)
           /\ fetched' = fetched \cup
                    {<<batchIndex + 1, s, data'[s]>> : s \in DOMAIN data'}
    /\ start' = NextStart(start, batchSize)
    /\ batchIndex' = batchIndex + 1
    /\ fetchLog' = Append(fetchLog, batchIndex + 1)
    /\ pc' = "fetched"
    /\ UNCHANGED runVars
    /\ UNCHANGED <<failure, confVars, offset, symbols, requests, stop, store,
                   clock, totalBatches, operations, rejected, committed,
                   writeLog, failedBatch>>

\* lines 96-99: the next chunk is taken and get_modules raises
FetchBatchFails ==
    /\ pc = "loop"
    /\ HasNextChunk(symbols, start)
    /\ LET next == ChunkAt(symbols, start, batchSize)
       IN  /\ batch' = next
           /\ chunks' = Append(chunks, next)
    /\ start' = NextStart(start, batchSize)
    /\ batchIndex' = batchIndex + 1
    /\ fetchLog' = Append(fetchLog, batchIndex + 1)
    /\ failure' = "fetch"
    /\ failedBatch' = batchIndex + 1
    /\ pc' = AfterFetchFailure
    /\ UNCHANGED runVars
    /\ UNCHANGED <<confVars, offset, symbols, requests, stop, store, clock,
                   totalBatches, data, operations, rejected, committed,
                   writeLog, fetched>>

\* lines 101-127: the operations are built and bulk_write executes them all
WriteBatch ==
    /\ pc = "fetched"
    /\ LET ops == BuildOperations(batch, data, clock)
           ex == Executed(Len(ops), {})
       IN  /\ operations' = ops
           /\ ops # <<>>
           /\ store' = BulkWrite(store, ops, ex)
           /\ committed' = committed \cup Writes(batchIndex, ops, ex)
    /\ rejected' = {}
    /\ writeLog' = Append(writeLog, batchIndex)
    /\ clock' = clock + 1
    /\ pc' = "loop"
    /\ UNCHANGED runVars
    /\ UNCHANGED <<failure, confVars, offset, symbols, requests, stop, start,
                   chunks, batchIndex, totalBatches, batch, data, fetchLog,
                   fetched, failedBatch>>

\* a loop that catches the exception and goes on to the next batch
AfterWriteFailureContinue == "loop"
\* where the process is after bulk_write raised at line 121: nothing catches
\* the exception
AfterWriteFailure == "failed"

\* lines 101-121: bulk_write raises after the server executed the batch. rej
\* are the operations the server rejected (write errors); it is empty when
\* the whole batch was executed and the error is a write concern error or a
\* lost reply.
WriteBatchRaises ==
    /\ pc = "fetched"
    /\ LET ops == BuildOperations(batch, data, clock)
       IN  /\ operations' = ops
           /\ ops # <<>>
           /\ \E rej \in SUBSET (1..Len(ops)) :
                LET ex == Executed(Len(ops), rej)
                IN  /\ rejected' = rej
                    /\ store' = BulkWrite(store, ops, ex)
                    /\ committed' = committed \cup Writes(batchIndex, ops, ex)
    /\ writeLog' = Append(writeLog, batchIndex)
    /\ clock' = clock + 1
    /\ failure' = "bulk_write_error"
    /\ failedBatch' = batchIndex
    /\ pc' = AfterWriteFailure
    /\ UNCHANGED runVars
    /\ UNCHANGED <<confVars, offset, symbols, requests, stop, start, chunks,
                   batchIndex, totalBatches, batch, data, fetchLog, fetched>>

\* lines 101-121: bulk_write raises before the server executed anything
WriteBatchFails ==
    /\ pc = "fetched"
    /\ LET ops == BuildOperations(batch, data, clock)
       IN  /\ operations' = ops
           /\ ops # <<>>
           /\ rejected' = 1..Len(ops)
    /\ writeLog' = Append(writeLog, batchIndex)
    /\ clock' = clock + 1
    /\ failure' = "bulk_write_call"
    /\ failedBatch' = batchIndex
    /\ pc' = AfterWriteFailure
    /\ UNCHANGED runVars
    /\ UNCHANGED <<confVars, offset, symbols, requests, stop, store, start,
                   chunks, batchIndex, totalBatches, batch, data, committed,
                   fetchLog, fetched>>

\* line 96: chunked is exhausted, upsert_company_data and main return
UpsertReturn ==
    /\ pc = "loop"
    /\ ~HasNextChunk(symbols, start)
    /\ pc' = "done"
    /\ UNCHANGED runVars
    /\ UNCHANGED <<failure, confVars, offset, symbols, requests, stop, store,
                   clock, upsertVars>>

----------------------------------------------------------------------------
(* Initial states *)

\* the answers a screener with at most n pages of quotes of qs gives to
\* requests of size ps
Upstreams(qs, ps, n) ==
    {pgs \in SeqsUpTo(NonEmptySeqsUpTo(qs, ps), n) :
        Len(Concat(pgs)) <= MaxListed}

Caps == {None} \cup (0..MaxCap)

InitConfOver(qs) ==
    /\ pageSize \in 1..MaxPageSize
    /\ maxSymbols \in Caps
    /\ pages \in Upstreams(qs, pageSize, MaxPages)

InitConf == InitConfOver(Quotes)

\* no other run writes to the collection
NoRuns ==
    /\ runOps = <<>>
    /\ runPending = <<>>
    /\ runMiss = <<>>
    /\ runLog = <<>>

InitLocals ==
    /\ failure = ""
    /\ offset = 0
    /\ symbols = <<>>
    /\ requests = <<>>
    /\ stop = ""
    /\ clock = 1
    /\ start = 0
    /\ chunks = <<>>
    /\ batchIndex = 0
    /\ totalBatches = 0
    /\ batch = <<>>
    /\ data \in [{} -> Records]
    /\ operations = <<>>
    /\ rejected = {}
    /\ committed = {}
    /\ fetchLog = <<>>
    /\ writeLog = <<>>
    /\ fetched = {}
    /\ failedBatch = 0
    /\ NoRuns

\* a call of fetch_us_equity_symbols(page_size, max_symbols) on its own
InitEnum ==
    /\ pc = "enum"
    /\ InitConfOver(EnumQuotes)
    /\ batchSize = 1
    /\ store = <<>>
    /\ InitLocals

NextEnum == BreakOnCap \/ PageEmpty \/ PageShort \/ PageFull \/ PageRequestFails

SpecEnum == InitEnum /\ [][NextEnum]_vars

\* the interpreter runs the loop on: a step that can be taken is taken
FairSpecEnum == SpecEnum /\ WF_vars(NextEnum)

\* a call of chunked(items, size) on its own, run to exhaustion
InitChunked ==
    /\ pc = "chunking"
    /\ pageSize = 1
    /\ maxSymbols = None
    /\ pages = <<>>
    /\ batchSize \in 1..MaxSize
    /\ store = <<>>
    /\ failure = ""
    /\ offset = 0
    /\ symbols \in SeqsUpTo(Tickers, MaxItems)
    /\ requests = <<>>
    /\ stop = ""
    /\ clock = 1
    /\ start = 0
    /\ chunks = <<>>
    /\ batchIndex = 0
    /\ totalBatches = 0
    /\ batch = <<>>
    /\ data \in [{} -> Records]
    /\ operations = <<>>
    /\ rejected = {}
    /\ committed = {}
    /\ fetchLog = <<>>
    /\ writeLog = <<>>
    /\ fetched = {}
    /\ failedBatch = 0
    /\ NoRuns

NextChunked == ChunkedYield \/ ChunkedReturn

SpecChunked == InitChunked /\ [][NextChunked]_vars

\* documents an earlier run left in the collection
OldDocs == {Doc(s, 0, OldRecord) : s \in {"A"}}

\* a run of main
Init ==
    /\ pc = "start"
    /\ InitConf
    /\ batchSize \in 1..MaxBatchSize
    /\ store \in SeqsUpTo(OldDocs, MaxInitDocs)
    /\ InitLocals

Next ==
    \/ CreateIndex
    \/ CreateIndexFails
    \/ BreakOnCap
    \/ PageEmpty
    \/ PageShort
    \/ PageFull
    \/ PageRequestFails
    \/ MainNoSymbols
    \/ EnterUpsert
    \/ FetchBatch
    \/ FetchBatchFails
    \/ WriteBatch
    \/ WriteBatchRaises
    \/ WriteBatchFails
    \/ UpsertReturn

Spec == Init /\ [][Next]_vars

----------------------------------------------------------------------------
(* Two runs of the program writing to the same collection.  Each run holds
   the operations of one batch (lines 102-118) and the server executes the
   operations of the two bulk_write calls (line 121) one at a time, in any
   order.  An update of one document is a single step of the server; an
   upsert that matched nothing inserts in a later step, and the unique index
   of line 182 decides what an insert on a key that exists by then does. *)

\* the most symbols in a run's batch
MaxRunSymbols == 1

\* the two runs; run r reads r from its clock
Runs == {1, 2}

\* every variable but the collection and the runs' operations
mainVars == <<pc, failure, confVars, offset, symbols, requests, stop, clock,
              upsertVars>>

\* a collection without the index
UniqueIndexMissing == FALSE
\* line 182: create_index("symbol", unique=True) returned before any write
UniqueIndex == TRUE

\* lines 98-118: the operations a run can build for one batch at time t
RunOperations(t) ==
    UNION {{BuildOperations(syms, m, t) : m \in Mappings(syms)} :
                syms \in NonEmptySeqsUpTo(Tickers, MaxRunSymbols)}

\* the server runs an update whose filter matches a document: $set in one step
RunUpdate(r) ==
    /\ pc = "runs"
    /\ runMiss[r] = 0
    /\ \E i \in runPending[r] :
        LET op == runOps[r][i]
        IN  /\ DocsOf(store, op.filter) # <<>>
            /\ store' = ApplyUpdateOne(store, op)
            /\ runPending' = [runPending EXCEPT ![r] = @ \ {i}]
            /\ runLog' = Append(runLog, <<r, i, "updated">>)
    /\ UNCHANGED <<mainVars, runOps, runMiss>>

\* the server finds no document for an upsert's filter and goes on to insert
RunFindsNone(r) ==
    /\ pc = "runs"
    /\ runMiss[r] = 0
    /\ \E i \in runPending[r] :
        LET op == runOps[r][i]
        IN  /\ DocsOf(store, op.filter) = <<>>
            /\ op.upsert
            /\ runMiss' = [runMiss EXCEPT ![r] = i]
    /\ UNCHANGED <<mainVars, store, runOps, runPending, runLog>>

\* the insert of an upsert goes through: the key is still absent, or there
\* is no unique index to refuse it
RunInsert(r) ==
    /\ pc = "runs"
    /\ runMiss[r] # 0
    /\ LET i == runMiss[r]
           op == runOps[r][i]
       IN  /\ ~(UniqueIndex /\ DocsOf(store, op.filter) # <<>>)
           /\ store' = Append(store, op.set)
           /\ runPending' = [runPending EXCEPT ![r] = @ \ {i}]
           /\ runLog' = Append(runLog, <<r, i, "inserted">>)
    /\ runMiss' = [runMiss EXCEPT ![r] = 0]
    /\ UNCHANGED <<mainVars, runOps>>

\* the unique index refuses the insert and the server runs the upsert again
RunInsertRetried(r) ==
    /\ pc = "runs"
    /\ runMiss[r] # 0
    /\ LET i == runMiss[r]
           op == runOps[r][i]
       IN  /\ UniqueIndex
           /\ DocsOf(store, op.filter) # <<>>
           /\ runLog' = Append(runLog, <<r, i, "retried">>)
    /\ runMiss' = [runMiss EXCEPT ![r] = 0]
    /\ UNCHANGED <<mainVars, store, runOps, runPending>>

\* the unique index refuses the insert and the server reports a duplicate
\* key error for the operation
RunInsertRejected(r) ==
    /\ pc = "runs"
    /\ runMiss[r] # 0
    /\ LET i == runMiss[r]
           op == runOps[r][i]
       IN  /\ UniqueIndex
           /\ DocsOf(store, op.filter) # <<>>
           /\ runPending' = [runPending EXCEPT ![r] = @ \ {i}]
           /\ runLog' = Append(runLog, <<r, i, "rejected">>)
    /\ runMiss' = [runMiss EXCEPT ![r] = 0]
    /\ UNCHANGED <<mainVars, store, runOps>>

\* both runs have created the index and built a batch; the collection holds
\* at most one document per key
InitTwoRuns ==
    /\ pc = "runs"
    /\ pageSize = 1
    /\ maxSymbols = None
    /\ pages = <<>>
    /\ batchSize = MaxRunSymbols
    /\ store \in SeqsUpTo(OldDocs, 1)
    /\ failure = ""
    /\ offset = 0
    /\ symbols = <<>>
    /\ requests = <<>>
    /\ stop = ""
    /\ clock = 1
    /\ start = 0
    /\ chunks = <<>>
    /\ batchIndex = 0
    /\ totalBatches = 0
    /\ batch = <<>>
    /\ data \in [{} -> Records]
    /\ operations = <<>>
    /\ rejected = {}
    /\ committed = {}
    /\ fetchLog = <<>>
    /\ writeLog = <<>>
    /\ fetched = {}
    /\ failedBatch = 0
    /\ runOps \in {<<a, b>> : a \in RunOperations(1), b \in RunOperations(2)}
    /\ runPending = [r \in Runs |-> 1..Len(runOps[r])]
    /\ runMiss = [r \in Runs |-> 0]
    /\ runLog = <<>>

NextTwoRuns ==
    \/ \E r \in Runs : RunUpdate(r)
    \/ \E r \in Runs : RunFindsNone(r)
    \/ \E r \in Runs : RunInsert(r)
    \/ \E r \in Runs : RunInsertRetried(r)
    \/ \E r \in Runs : RunInsertRejected(r)

SpecTwoRuns == InitTwoRuns /\ [][NextTwoRuns]_vars

----------------------------------------------------------------------------
(* Properties of fetch_us_equity_symbols *)

\* a loop that advances its offset issues at most one request past the last page
RequestsBounded == Len(requests) <= MaxPages + 1

\* the result of the steps is the result of the function
StepsAgree == pc = "enumerated" => symbols = Enumerate(pages, pageSize, maxSymbols)

\* C1: whatever finite list of pages the screener holds and whatever the page
\* size and the cap, the pagination loop ends: by the cap, an empty page or a
\* short page (or by the request raising).
C1_EnumTerminates ==
    <>(\/ pc = "enumerated" /\ stop \in {"cap", "empty", "short"}
       \/ pc = "failed" /\ failure = "enumeration")

\* the loop went through a full page and ended on a later page
C1_Witness ==
    /\ pc = "enumerated"
    /\ Len(requests) = MaxPages + 1
    /\ stop = "empty"
    /\ maxSymbols = None

\* C2: with a cap, the list returned has at most max_symbols entries, has
\* exactly max_symbols when the uncapped enumeration of the same pages returns
\* more, and is the prefix of the uncapped result.
C2_CapCorrect ==
    (pc = "enumerated" /\ maxSymbols # None) =>
        LET full == Enumerate(pages, pageSize, None)
        IN  /\ Len(symbols) <= maxSymbols
            /\ Len(full) > maxSymbols => Len(symbols) = maxSymbols
            /\ symbols = SubSeq(full, 1, Min(maxSymbols, Len(full)))

\* the cap cut a page: the uncapped enumeration returns more than the cap
C2_Witness ==
    /\ pc = "enumerated"
    /\ maxSymbols = 1
    /\ stop = "cap"
    /\ Len(Enumerate(pages, pageSize, None)) = 3
    /\ Len(symbols) = 1

----------------------------------------------------------------------------
(* Properties of chunked *)

\* C3: the chunks yielded concatenate to the items, in order; every chunk but
\* the last has exactly size entries, the last has 1..size; no chunk is
\* yielded exactly when there is no item.
C3_ChunkPartition ==
    pc = "chunked" =>
        /\ Concat(chunks) = symbols
        /\ \A i \in 1..Len(chunks) - 1 : Len(chunks[i]) = batchSize
        /\ chunks # <<>> => Len(chunks[Len(chunks)]) \in 1..batchSize
        /\ chunks = <<>> <=> symbols = <<>>

\* three items by two: a full chunk and the remainder
C3_Witness ==
    /\ pc = "chunked"
    /\ symbols = <<"A", "B", "A">>
    /\ batchSize = 2
    /\ chunks = << <<"A", "B">>, <<"A">> >>

----------------------------------------------------------------------------
(* Properties of upsert_company_data *)

\* the last bulk_write returned: its batch is written in full
BatchWritten == batchIndex >= 1 /\ pc \in {"loop", "done"}

\* operations holds the list built for the current batch
OperationsBuilt == batchIndex >= 1 /\ pc # "fetched" /\ failure # "fetch"

\* the run failed in upsert_company_data
RunFailedInBatch == failure \in {"fetch", "bulk_write_error", "bulk_write_call"}

\* the batches that executed an operation
CommittedBatches == {w[1] : w \in committed}

\* the timestamps of the documents of the collection
Stamps(st) == {st[i].last_updated : i \in 1..Len(st)}

\* C4: once the bulk_write of a batch has returned, every symbol of the batch
\* has exactly one document in the collection, whether or not get_modules
\* returned data for it and whether or not it had a document before.
C4_OneDocumentPerSymbol ==
    BatchWritten => \A s \in Range(batch) : Len(DocsOf(store, s)) = 1

\* "A" had a document and has data, "B" had none and has no data
C4_Witness ==
    /\ BatchWritten
    /\ batchIndex = 1
    /\ batch = <<"B", "A">>
    /\ DOMAIN data = {"A"}
    /\ Len(store) = 2
    /\ store[1].symbol = "A"

\* C5: the list built for a batch holds one operation per entry of the batch,
\* in order, keyed by that symbol; its data is the value get_modules returned
\* for the symbol, or the empty record when the mapping has no such key.
C5_OneOperationPerSymbol ==
    OperationsBuilt =>
        /\ Len(operations) = Len(batch)
        /\ \A i \in 1..Len(batch) :
            /\ operations[i].filter = batch[i]
            /\ operations[i].set.symbol = batch[i]
            /\ batch[i] \in DOMAIN data => operations[i].set.data = data[batch[i]]
            /\ batch[i] \notin DOMAIN data => operations[i].set.data = EmptyRecord

\* a batch of two symbols, one of them missing from the mapping
C5_Witness ==
    /\ OperationsBuilt
    /\ batch = <<"A", "B">>
    /\ DOMAIN data = {"A"}
    /\ Len(operations) = 2

\* C6: executing the operations of a written batch once more, with the same
\* symbols, mapping and timestamp, leaves the collection as it is.
C6_UpsertIdempotent ==
    BatchWritten =>
        BulkWrite(store, operations, Executed(Len(operations), {})) = store

\* a batch of two was written over an existing document
C6_Witness ==
    /\ BatchWritten
    /\ Len(batch) = 2
    /\ batch[1] # batch[2]
    /\ Len(store) = 2
    /\ store[1].last_updated = store[2].last_updated

\* C7: when bulk_write raises because the server rejected operations, every
\* operation of the batch that was not rejected is executed: its document is
\* in the collection with its data and timestamp.
C7_UnorderedResilience ==
    (failure = "bulk_write_error" /\ rejected # {}) =>
        \A i \in (1..Len(operations)) \ rejected :
            /\ <<batchIndex, operations[i].filter>> \in committed
            /\ \E j \in 1..Len(store) : store[j] = operations[i].set

\* the first of two operations on different keys is rejected
C7_Witness ==
    /\ failure = "bulk_write_error"
    /\ rejected = {1}
    /\ Len(operations) = 2
    /\ operations[1].filter # operations[2].filter
    /\ DocsOf(store, operations[1].filter) = <<>>

\* C8 as stated: when the run fails at batch k, no operation of batch k or of
\* a later batch was executed.
C8_NothingFromFailingBatch ==
    RunFailedInBatch => \A w \in committed : w[1] < failedBatch

\* C8 as amended: when the run fails at batch k, no operation of a later batch
\* was executed, and none of batch k unless bulk_write raised after the server
\* executed the batch. (Batch k stamps its documents with k: the clock is read
\* once per batch.)
C8_NothingAfterFailingBatch ==
    RunFailedInBatch =>
        /\ \A w \in committed : w[1] <= failedBatch
        /\ \A t \in Stamps(store) : t <= failedBatch
        /\ failure # "bulk_write_error" =>
            /\ \A w \in committed : w[1] < failedBatch
            /\ \A t \in Stamps(store) : t < failedBatch

\* the second of three batches fails with its operation executed
C8_Witness ==
    /\ failure = "bulk_write_error"
    /\ failedBatch = 2
    /\ totalBatches = 3
    /\ 2 \in CommittedBatches

\* the symbols of the batches whose bulk_write has returned
CompletedSymbols ==
    IF pc = "fetched"
    THEN Range(Concat(SubSeq(chunks, 1, Len(chunks) - 1)))
    ELSE Range(Concat(chunks))

\* C9: the step in which the fetch or the bulk_write of a batch fails leaves
\* the documents of the symbols of the completed batches as they were.
C9_EarlierBatchesKept ==
    [][(failure = "" /\ failure' \in {"fetch", "bulk_write_error", "bulk_write_call"})
        => \A s \in CompletedSymbols : DocsOf(store', s) = DocsOf(store, s)]_vars

\* C10 as stated: after the fetch of batch k failed, the batches after k are
\* still fetched and written.
C10_PendingBatchesProcessed ==
    (failure = "fetch" /\ pc \in {"failed", "done"}) =>
        \A k \in (failedBatch + 1)..totalBatches :
            k \in Range(fetchLog) /\ k \in CommittedBatches

\* C10 as amended: the failure of the fetch of batch k ends the run: nothing
\* is fetched or written after it, batch k is not written, and the batches
\* before k are the ones written.
C10_FetchFailureStopsRun ==
    failure = "fetch" =>
        /\ pc = "failed"
        /\ ~ENABLED (FetchBatch \/ FetchBatchFails \/ WriteBatch)
        /\ fetchLog = [k \in 1..failedBatch |-> k]
        /\ CommittedBatches = 1..(failedBatch - 1)

\* the fetch of the second of three batches fails
C10_Witness ==
    /\ failure = "fetch"
    /\ failedBatch = 2
    /\ totalBatches = 3
    /\ 1 \in CommittedBatches

----------------------------------------------------------------------------
(* Properties of a run of main *)

\* the numbers 1..n in order
UpTo(n) == [k \in 1..n |-> k]

\* C11: the batches are taken in list order and one call is made at a time:
\* the calls are fetch 1, write 1, fetch 2, write 2, ...; a bulk_write is
\* issued only for the batch whose fetch has just returned, and a fetch is
\* issued only when the bulk_write of the batch before it has returned.
C11_Sequential ==
    /\ fetchLog = UpTo(Len(fetchLog))
    /\ writeLog = UpTo(Len(writeLog))
    /\ Len(chunks) = Len(fetchLog)
    /\ \A k \in 1..Len(chunks) :
        chunks[k] = Slice(symbols, (k - 1) * batchSize, k * batchSize)
    /\ Len(writeLog) <= Len(fetchLog)
    /\ Len(fetchLog) <= Len(writeLog) + 1
    /\ Len(fetchLog) = Len(writeLog) + 1 <=> (pc = "fetched" \/ failure = "fetch")
    /\ ENABLED (FetchBatch \/ FetchBatchFails) => Len(writeLog) = Len(fetchLog)
    /\ ENABLED (WriteBatch \/ WriteBatchRaises \/ WriteBatchFails) =>
            Len(fetchLog) = Len(writeLog) + 1

\* three batches were fetched and written
C11_Witness ==
    /\ pc = "done"
    /\ fetchLog = <<1, 2, 3>>
    /\ writeLog = <<1, 2, 3>>

\* the last batch that holds symbol s
LastBatchOf(s) ==
    CHOOSE k \in 1..Len(chunks) :
        /\ s \in Range(chunks[k])
        /\ \A j \in (k + 1)..Len(chunks) : s \notin Range(chunks[j])

\* the records get_modules returned for symbol s in batch k
FetchedFor(k, s) == {f[3] : f \in {g \in fetched : g[1] = k /\ g[2] = s}}

\* C12: when the run has returned without a failure, every enumerated symbol
\* has exactly one document; its data is the record fetched for the symbol
\* (the empty record when none was returned) and its timestamp was read in
\* this run, both in the last batch holding the symbol; and the number of
\* fetches and of bulk writes is ceil(len(symbols) / batch_size).
C12_RunComplete ==
    (pc = "done" /\ failure = "" /\ symbols # <<>>) =>
        /\ \A s \in Range(symbols) :
            LET docs == DocsOf(store, s)
                k == LastBatchOf(s)
                recs == FetchedFor(k, s)
            IN  /\ Len(docs) = 1
                /\ docs[1].last_updated = k
                /\ docs[1].last_updated \in 1..(clock - 1)
                /\ recs = {} => docs[1].data = EmptyRecord
                /\ recs # {} => recs = {docs[1].data}
        /\ Len(fetchLog) = totalBatches
        /\ Len(writeLog) = totalBatches
        /\ totalBatches * batchSize >= Len(symbols)
        /\ (totalBatches - 1) * batchSize < Len(symbols)

\* three symbols in two batches, one of them without a record
C12_Witness ==
    /\ pc = "done"
    /\ failure = ""
    /\ Len(symbols) = 3
    /\ batchSize = 2
    /\ totalBatches = 2
    /\ \E s \in Range(symbols) : FetchedFor(LastBatchOf(s), s) = {}
    /\ \E s \in Range(symbols) : FetchedFor(LastBatchOf(s), s) # {}

\* C13: when the enumeration returns no symbol, main returns at once: no
\* get_modules call and no bulk_write call is made, and nothing is written.
C13_NoSymbolsNoWork ==
    (stop # "" /\ symbols = <<>>) =>
        /\ pc \in {"enumerated", "done"}
        /\ pc = "enumerated" => ENABLED MainNoSymbols /\ ~ENABLED EnterUpsert
        /\ failure = ""
        /\ fetchLog = <<>>
        /\ writeLog = <<>>
        /\ committed = {}
        /\ Stamps(store) \subseteq {0}

\* the screener listed only quotes without a symbol; main has returned
C13_Witness ==
    /\ pc = "done"
    /\ symbols = <<>>
    /\ pages # <<>>
    /\ Len(requests) = 2

\* C14: when a page request raises, nothing is returned: the run is over, the
\* symbols accumulated so far are not handed to upsert_company_data, and no
\* get_modules call and no bulk_write call is made.
C14_PageFailureAborts ==
    failure = "enumeration" =>
        /\ pc = "failed"
        /\ stop = ""
        /\ ~ENABLED (MainNoSymbols \/ EnterUpsert \/ FetchBatch \/ FetchBatchFails)
        /\ fetchLog = <<>>
        /\ writeLog = <<>>
        /\ committed = {}
        /\ Stamps(store) \subseteq {0}

\* the second request raised after the first page gave symbols
C14_Witness ==
    /\ failure = "enumeration"
    /\ Len(requests) = 2
    /\ symbols # <<>>

----------------------------------------------------------------------------
(* Properties of the list the pagination returns *)

\* the page the i-th request was answered with
RequestedPage(i) == PageAt(pages, requests[i], pageSize)

\* the symbols taken from the first n requested pages
Accumulated(n) == Concat([i \in 1..n |-> NewSymbols(RequestedPage(i))])

\* C15: the returned list holds no symbol twice, whatever the screener lists.
C15_Deduplicated ==
    pc = "enumerated" =>
        \A i, j \in 1..Len(symbols) : symbols[i] = symbols[j] => i = j

\* the entries of a page that carry a non-empty symbol
NonEmptySymbols(quotes) ==
    SelectSeq(quotes, LAMBDA q : q # NoSymbol /\ q # EmptySymbol)

\* C16: without a cap the returned list is the concatenation, in page order,
\* of the non-empty symbols of the requested pages; quotes without a symbol
\* are passed over and the list holds no empty symbol.
C16_NonEmptySymbolsOnly ==
    (pc = "enumerated" /\ maxSymbols = None) =>
        /\ symbols =
            Concat([i \in 1..Len(requests) |-> NonEmptySymbols(RequestedPage(i))])
        /\ EmptySymbol \notin Range(symbols)

\* C17: the requests are made at offsets 0, page_size, 2 * page_size, ...,
\* each once; a request is made only when every page before it was full
\* (quotes without a symbol counted) and, with a cap, fewer than max_symbols
\* symbols were accumulated; a cap of 0 makes no request.
C17_RequestSequence ==
    /\ requests = [i \in 1..Len(requests) |-> (i - 1) * pageSize]
    /\ \A i \in 2..Len(requests) : \A j \in 1..(i - 1) :
            Len(RequestedPage(j)) = pageSize
    /\ maxSymbols # None =>
            \A i \in 1..Len(requests) : Len(Accumulated(i - 1)) < maxSymbols
    /\ maxSymbols = 0 => requests = <<>>
    /\ (pc = "enum" /\ maxSymbols # None /\ Len(symbols) >= maxSymbols) =>
            ~ENABLED (PageEmpty \/ PageShort \/ PageFull \/ PageRequestFails)

\* pages [A, B], [A] with page size 2 and cap 2: only the first is requested
C17_Witness ==
    /\ pc = "enumerated"
    /\ pageSize = 2
    /\ maxSymbols = 2
    /\ pages = << <<"A", "B">>, <<"A">> >>
    /\ requests = <<0>>
    /\ symbols = <<"A", "B">>

----------------------------------------------------------------------------
(* Frame of a batch's bulk_write *)

\* C19: the bulk_write of a batch changes only documents keyed by a symbol of
\* the batch: for every other key the documents are the same before and after
\* the step, none created and none deleted; and no other step of the run
\* changes the collection.
C19_WriteFrame ==
    [][\A s \in Tickers :
            (pc # "fetched" \/ s \notin Range(batch)) =>
                DocsOf(store', s) = DocsOf(store, s)]_vars

\* batch [B] was written into a collection that held a document of A, which
\* is still as it was
C19_Witness ==
    /\ pc = "loop"
    /\ batchIndex = 1
    /\ batch = <<"B">>
    /\ committed # {}
    /\ Len(store) = 2
    /\ DocsOf(store, "A") = <<Doc("A", 0, OldRecord)>>
    /\ Len(DocsOf(store, "B")) = 1

----------------------------------------------------------------------------
(* Two runs on one collection *)

\* the steps of the server that wrote a document of key s
WritesOf(s) ==
    {k \in 1..Len(runLog) :
        /\ runLog[k][3] \in {"updated", "inserted"}
        /\ runOps[runLog[k][1]][runLog[k][2]].filter = s}

\* C18: while two runs write to the collection, every key has at most one
\* document, and the document is the one its last write set as a whole:
\* symbol, data and last_updated all come from that one operation, never
\* data from one run and last_updated from the other.
C18_TwoRunsWholeDocuments ==
    pc = "runs" =>
        \A s \in Tickers :
            LET docs == DocsOf(store, s)
                ws == WritesOf(s)
            IN  /\ Len(docs) <= 1
                /\ ws = {} => \A i \in 1..Len(docs) : docs[i] \in OldDocs
                /\ ws # {} =>
                    LET k == CHOOSE w \in ws : \A v \in ws : v <= w
                    IN  docs = <<runOps[runLog[k][1]][runLog[k][2]].set>>

\* both runs found no document of A; run 1 inserted, the index refused run
\* 2's insert, which ran again as an update and wrote its own record and time
C18_Witness ==
    /\ pc = "runs"
    /\ runPending = [r \in Runs |-> {}]
    /\ runLog = << <<1, 1, "inserted">>, <<2, 1, "retried">>, <<2, 1, "updated">> >>
    /\ runOps[1][1].filter = "A"
    /\ runOps[1][1].set.data # runOps[2][1].set.data
    /\ store = <<runOps[2][1].set>>

====
